---- MODULE Spec2Model ----
(***************************************************************************)
(* A model of the TextEditor component (src/components/apps/textEditor.tsx) *)
(* and of the persistent store it reads and writes.                        *)
(*                                                                         *)
(* One component instance at a time is mounted by a parent that chooses    *)
(* the props editorId and initialContent.  React's scheduling is modelled  *)
(* as it runs the component: a render commits the queued state updates,    *)
(* the passive effects whose dependencies changed are then flushed in      *)
(* declaration order (clean-ups first), and the state updates an effect    *)
(* queues are applied by the next render.  A discrete event (click, input, *)
(* key, timer callback) runs its handler, the render and the effect flush  *)
(* in one task.  The first render and a render with new props are         *)
(* followed by their effect flush; the updates the load effect queues are  *)
(* applied by a later re-render, and the state in between is a state of    *)
(* the model.                                                              *)
(*                                                                         *)
(* Timers are untimed: a pending timer may fire at any later task.  All    *)
(* status-clear timers have the same delay (2000 ms), so they fire in the  *)
(* order they were scheduled and a count of them is their whole state.     *)
(***************************************************************************)
EXTENDS Integers, Sequences, FiniteSets, TLC

(* ------------------------------ bounds -------------------------------- *)

\* status-clear timeouts that may be outstanding at once (all instances)
MaxPendingClears == 2
\* clipboard writes that may be in flight at once
MaxPendingCopies == 1

(* ----------------------------- input sets ----------------------------- *)

EditorIds == {"A", "B"}
\* values the parent passes as initialContent
InitialContents == {"", "x"}
\* values the user leaves in the text area
Typed == {"", "x"}
\* values onValueChange of the style toggle group is called with
ToggleInputs == {{}, {"bold", "underline"}}
\* keys of keydown events
Keys == {"s", "c", "z"}
\* window.getSelection().toString()
Selections == {"", "sel"}

(* --------------------- the store (utils/storage) ---------------------- *)

TEXT_EDITOR_STORAGE_KEY == "content"
TEXT_EDITOR_SETTINGS_KEY == "settings"

\* `${KEY}_${editorId}`
KeyOf(prefix, id) == [kind |-> prefix, id |-> id]

defaultEditorSettings ==
    [isBold |-> FALSE, isItalic |-> FALSE, isUnderline |-> FALSE,
     wordWrap |-> TRUE, autoSaveInterval |-> 30]

ContentKey(id) == KeyOf(TEXT_EDITOR_STORAGE_KEY, id)
SettingsKey(id) == KeyOf(TEXT_EDITOR_SETTINGS_KEY, id)

\* a store entry is {} (absent) or {value}
StoredValue(st, key) == st[key.kind][key.id]

saveFeatureState(st, key, value) ==
    [st EXCEPT ![key.kind][key.id] = {value}]

loadEditorSettings(st, id) ==
    LET e == StoredValue(st, SettingsKey(id))
    IN  IF e = {} THEN defaultEditorSettings ELSE CHOOSE s \in e : TRUE

loadEditorContent(st, id) ==
    LET e == StoredValue(st, ContentKey(id))
    IN  IF e = {} THEN "" ELSE CHOOSE s \in e : TRUE

EmptyStore ==
    [content |-> [id \in EditorIds |-> {}], settings |-> [id \in EditorIds |-> {}]]

\* what earlier sessions may have left in the store
InitialStores ==
    { EmptyStore,
      [EmptyStore EXCEPT !.settings["A"] =
                             {[defaultEditorSettings EXCEPT !.autoSaveInterval = 2]},
                         !.content["B"] = {"x"},
                         !.settings["B"] =
                             {[defaultEditorSettings EXCEPT !.isBold = TRUE,
                                                            !.autoSaveInterval = 0]}],
      [EmptyStore EXCEPT !.settings["A"] =
                             {[defaultEditorSettings EXCEPT !.autoSaveInterval = 2]}] }

(* ------------------------------- state -------------------------------- *)

VARIABLES
    mounted,            \* a component instance is mounted
    phase,              \* "unmounted" | "idle" | "update" (a re-render is due)
    editorId,           \* prop
    initialContent,     \* prop
    content,            \* useState
    editorSettings,     \* useState
    statusMessage,      \* useState
    initialLoadDone,    \* useState
    autoSaveTimerRef,   \* useRef: the interval timer autoSaveTimerRef.current names
    autoSaveCleanup,    \* the last run of the auto-save effect returned a clean-up
    intervalLeaked,     \* an interval timer is running that no reference names any more
    listener,           \* the keydown listener on document and what it closes over
    updateQ,            \* state updates queued for the next render
    memFor,             \* the editorId the in-memory content and settings were loaded for
    store,              \* the persistent key-value store
    pendingClears,      \* pending status-clear timeouts of the mounted instance
    orphanClears,       \* pending status-clear timeouts of unmounted instances
    pendingCopies,      \* navigator.clipboard.writeText calls in flight: [text, live]
    clipboard,          \* the system clipboard: {} or {text}
    unhandled           \* an exception or rejection escaped a handler

vars == <<mounted, phase, editorId, initialContent, content, editorSettings,
          statusMessage, initialLoadDone, autoSaveTimerRef, autoSaveCleanup,
          intervalLeaked, listener, updateQ, memFor, store,
          pendingClears, orphanClears, pendingCopies, clipboard, unhandled>>

NoTimer == [set |-> FALSE, active |-> FALSE, period |-> 0]
NoListener == [on |-> FALSE, content |-> "", editorId |-> "A"]

AllEffects == {"load", "saveContent", "saveSettings", "autoSave", "keyboard"}

(* ----------------------- React state and updates ---------------------- *)

\* the values one render of the component sees
Rendered ==
    [content |-> content, editorSettings |-> editorSettings,
     statusMessage |-> statusMessage, initialLoadDone |-> initialLoadDone,
     newSettingsObject |-> FALSE]

InitialState ==
    [content |-> "", editorSettings |-> defaultEditorSettings,
     statusMessage |-> "", initialLoadDone |-> FALSE, newSettingsObject |-> FALSE]

\* a queued state update: a setter called with a value, or (setting) with a reducer
Update(t, k, v) == [t |-> t, k |-> k, v |-> v]

\* setContent(v), setEditorSettings(v), setStatusMessage(v), setInitialLoadDone(v)
setContent(v) == Update("content", "", v)
setEditorSettings(v) == Update("settings", "", v)
setStatusMessage(v) == Update("status", "", v)
setInitialLoadDone(v) == Update("loaded", "", v)

\* the reducer of updateSetting: (prev) => ({ ...prev, [key]: value })
MergeSetting(prev, key, value) == [prev EXCEPT ![key] = value]

\* updateSetting written against the rendered settings instead of prev
updateSetting_stale(key, value) ==
    Update("settings", "", [editorSettings EXCEPT ![key] = value])

\* updateSetting(key, value): queues the reducer
updateSetting(key, value) == Update("setting", key, value)

ApplyUpdate(s, u) ==
    CASE u.t = "content"  -> [s EXCEPT !.content = u.v]
      [] u.t = "settings" -> [s EXCEPT !.editorSettings = u.v, !.newSettingsObject = TRUE]
      [] u.t = "setting"  -> [s EXCEPT !.editorSettings = MergeSetting(@, u.k, u.v),
                                       !.newSettingsObject = TRUE]
      [] u.t = "status"   -> [s EXCEPT !.statusMessage = u.v]
      [] u.t = "loaded"   -> [s EXCEPT !.initialLoadDone = u.v]

RECURSIVE ApplyUpdates(_, _)
\* a render: the queued updates applied in the order they were queued
ApplyUpdates(q, s) ==
    IF q = <<>> THEN s ELSE ApplyUpdates(Tail(q), ApplyUpdate(s, Head(q)))

\* the keyboard effect declared with an empty dependency array
EffectsFor_staleKeyboard(old, new, idChanged, icChanged) ==
    LET cnt    == new.content # old.content
        loaded == new.initialLoadDone # old.initialLoadDone
        ivl    == new.editorSettings.autoSaveInterval # old.editorSettings.autoSaveInterval
    IN  {e \in AllEffects :
            \/ e = "load"         /\ (idChanged \/ icChanged)
            \/ e = "saveContent"  /\ (cnt \/ idChanged \/ loaded)
            \/ e = "saveSettings" /\ (new.newSettingsObject \/ idChanged \/ loaded)
            \/ e = "autoSave"     /\ (ivl \/ idChanged \/ loaded)}

\* the effects whose dependency arrays differ between two renders
EffectsFor(old, new, idChanged, icChanged) ==
    LET cnt    == new.content # old.content
        loaded == new.initialLoadDone # old.initialLoadDone
        ivl    == new.editorSettings.autoSaveInterval # old.editorSettings.autoSaveInterval
    IN  {e \in AllEffects :
            \/ e = "load"         /\ (idChanged \/ icChanged)
            \/ e = "saveContent"  /\ (cnt \/ idChanged \/ loaded)
            \/ e = "saveSettings" /\ (new.newSettingsObject \/ idChanged \/ loaded)
            \/ e = "autoSave"     /\ (ivl \/ idChanged \/ loaded)
            \/ e = "keyboard"     /\ (cnt \/ idChanged)}

(* ------------------------------ timers -------------------------------- *)

\* if (autoSaveTimerRef.current) clearInterval(autoSaveTimerRef.current)
ClearAutoSaveTimer(ref) == IF ref.set THEN [ref EXCEPT !.active = FALSE] ELSE ref

\* setInterval(callback, ms), the result stored in autoSaveTimerRef.current
SetInterval(ms) == [set |-> TRUE, active |-> TRUE, period |-> ms]

(* ------------------------------ effects ------------------------------- *)

\* a || b on strings
JsOr(a, b) == IF a = "" THEN b ELSE a

LoadEffect(st, id, ic) ==
    << setEditorSettings(loadEditorSettings(st, id)),
       setContent(JsOr(loadEditorContent(st, id), ic)),
       setInitialLoadDone(TRUE) >>

\* a call saveFeatureState(key, value)
Write(key, value) == [key |-> key, value |-> value]

RECURSIVE ApplyWrites(_, _)
\* the store after the calls ws, in order
ApplyWrites(st, ws) ==
    IF ws = <<>> THEN st
    ELSE ApplyWrites(saveFeatureState(st, Head(ws).key, Head(ws).value), Tail(ws))

\* the save-content effect without its initialLoadDone guard
SaveContentEffect_unguarded(id, cnt, loaded) ==
    <<Write(ContentKey(id), cnt)>>

\* the save-content effect: the calls of saveFeatureState it makes
SaveContentEffect(id, cnt, loaded) ==
    IF loaded THEN <<Write(ContentKey(id), cnt)>> ELSE <<>>

\* the save-settings effect: the calls of saveFeatureState it makes
SaveSettingsEffect(id, settings, loaded) ==
    IF loaded THEN <<Write(SettingsKey(id), settings)>> ELSE <<>>

\* the auto-save effect returning no clean-up
AutoSaveEffect_nocleanup(ref, leaked, loaded, interval) ==
    IF ~loaded \/ interval <= 0
    THEN [ref |-> ClearAutoSaveTimer(ref), leaked |-> leaked, cleanup |-> FALSE]
    ELSE [ref |-> SetInterval(interval * 1000),
          leaked |-> leaked \/ ClearAutoSaveTimer(ref).active,
          cleanup |-> FALSE]

\* the auto-save effect: [ref, leaked, cleanup]
AutoSaveEffect(ref, leaked, loaded, interval) ==
    IF ~loaded \/ interval <= 0
    THEN [ref |-> ClearAutoSaveTimer(ref), leaked |-> leaked, cleanup |-> FALSE]
    ELSE [ref |-> SetInterval(interval * 1000),
          leaked |-> leaked \/ ClearAutoSaveTimer(ref).active,
          cleanup |-> TRUE]

\* the clean-up the auto-save effect returns
AutoSaveCleanup(ref) == ClearAutoSaveTimer(ref)

\* the keyboard effect: addEventListener("keydown", handleKeyDown)
KeyboardEffect(id, cnt) == [on |-> TRUE, content |-> cnt, editorId |-> id]

\* the platform state the effects act on
Platform ==
    [store |-> store, ref |-> autoSaveTimerRef, cleanup |-> autoSaveCleanup,
     leaked |-> intervalLeaked, listener |-> listener, updates |-> <<>>]

\* one flush of passive effects: the clean-ups of the effects that re-run, then
\* the effects in the order the component declares them
RunEffects(effs, id, ic, r, p) ==
    LET ref0 == IF "autoSave" \in effs /\ p.cleanup THEN AutoSaveCleanup(p.ref) ELSE p.ref
        lis0 == IF "keyboard" \in effs THEN NoListener ELSE p.listener
        upd  == IF "load" \in effs THEN LoadEffect(p.store, id, ic) ELSE <<>>
        wc   == IF "saveContent" \in effs
                THEN SaveContentEffect(id, r.content, r.initialLoadDone) ELSE <<>>
        ws   == IF "saveSettings" \in effs
                THEN SaveSettingsEffect(id, r.editorSettings, r.initialLoadDone) ELSE <<>>
        as   == IF "autoSave" \in effs
                THEN AutoSaveEffect(ref0, p.leaked, r.initialLoadDone,
                                    r.editorSettings.autoSaveInterval)
                ELSE [ref |-> ref0, leaked |-> p.leaked, cleanup |-> p.cleanup]
        lis  == IF "keyboard" \in effs THEN KeyboardEffect(id, r.content) ELSE lis0
    IN  [store |-> ApplyWrites(p.store, wc \o ws), writes |-> wc \o ws, ref |-> as.ref, cleanup |-> as.cleanup, leaked |-> as.leaked,
         listener |-> lis, updates |-> upd]

(* ----------------------- mount, props, re-render ---------------------- *)

Init ==
    /\ mounted = FALSE /\ phase = "unmounted"
    /\ editorId = "A" /\ initialContent = ""
    /\ content = "" /\ editorSettings = defaultEditorSettings
    /\ statusMessage = "" /\ initialLoadDone = FALSE
    /\ autoSaveTimerRef = NoTimer /\ autoSaveCleanup = FALSE /\ intervalLeaked = FALSE
    /\ listener = NoListener /\ updateQ = <<>> /\ memFor = "none"
    /\ store \in InitialStores
    /\ pendingClears = 0 /\ orphanClears = 0
    /\ pendingCopies = <<>> /\ clipboard = {} /\ unhandled = FALSE

\* a render commits the state `new` under the props (id, ic), and the effects effs
\* are flushed on the platform state p
Commit(id, ic, new, effs, p) ==
    LET r == RunEffects(effs, id, ic, new, p)
    IN  /\ editorId' = id /\ initialContent' = ic
        /\ content' = new.content /\ editorSettings' = new.editorSettings
        /\ statusMessage' = new.statusMessage
        /\ initialLoadDone' = new.initialLoadDone
        /\ store' = r.store /\ autoSaveTimerRef' = r.ref
        /\ autoSaveCleanup' = r.cleanup /\ intervalLeaked' = r.leaked
        /\ listener' = r.listener /\ updateQ' = r.updates
        /\ phase' = IF r.updates = <<>> THEN "idle" ELSE "update"

\* the parent mounts <TextEditor editorId={id} initialContent={ic} />: the first
\* render, after which every effect runs
Mount(id, ic) ==
    /\ phase = "unmounted"
    /\ mounted' = TRUE /\ memFor' = "none"
    /\ Commit(id, ic, InitialState, AllEffects,
              [Platform EXCEPT !.ref = NoTimer, !.cleanup = FALSE])
    /\ UNCHANGED <<pendingClears, orphanClears, pendingCopies, clipboard, unhandled>>

\* the re-render that applies the updates the load effect queued
RenderUpdate ==
    /\ phase = "update"
    /\ LET new == ApplyUpdates(updateQ, Rendered)
       IN  Commit(editorId, initialContent, new,
                  EffectsFor(Rendered, new, FALSE, FALSE), Platform)
    /\ memFor' = IF \E i \in 1..Len(updateQ) : updateQ[i].t = "loaded"
                 THEN editorId ELSE memFor
    /\ UNCHANGED <<mounted, pendingClears, orphanClears, pendingCopies, clipboard, unhandled>>

\* the parent re-renders the mounted component with other props
PropsChange(id, ic) ==
    /\ phase = "idle"
    /\ <<id, ic>> # <<editorId, initialContent>>
    /\ Commit(id, ic, Rendered,
              EffectsFor(Rendered, Rendered, id # editorId, ic # initialContent),
              Platform)
    /\ UNCHANGED <<mounted, memFor, pendingClears, orphanClears, pendingCopies, clipboard, unhandled>>

\* the component unmounts: the clean-ups of its effects run and its state is dropped
Unmount ==
    /\ phase = "idle"
    /\ mounted' = FALSE /\ phase' = "unmounted"
    /\ LET ref == IF autoSaveCleanup THEN AutoSaveCleanup(autoSaveTimerRef)
                  ELSE autoSaveTimerRef
       IN  /\ intervalLeaked' = (intervalLeaked \/ ref.active)
           /\ autoSaveTimerRef' = NoTimer
    /\ autoSaveCleanup' = FALSE /\ listener' = NoListener
    /\ editorId' = "A" /\ initialContent' = ""
    /\ content' = InitialState.content
    /\ editorSettings' = InitialState.editorSettings
    /\ statusMessage' = InitialState.statusMessage
    /\ initialLoadDone' = InitialState.initialLoadDone
    /\ updateQ' = <<>> /\ memFor' = "none"
    /\ orphanClears' = orphanClears + pendingClears /\ pendingClears' = 0
    /\ pendingCopies' = [i \in 1..Len(pendingCopies) |->
                            [pendingCopies[i] EXCEPT !.live = FALSE]]
    /\ UNCHANGED <<store, clipboard, unhandled>>

(* --------------------------- discrete events -------------------------- *)

\* a task of the mounted instance that queues the updates q: the render that
\* applies them and the flush of the effects it schedules
Dispatch(q) ==
    LET new == ApplyUpdates(q, Rendered)
    IN  /\ Commit(editorId, initialContent, new,
                  EffectsFor(Rendered, new, FALSE, FALSE), Platform)
        /\ UNCHANGED <<mounted, memFor>>

\* another status-clear timeout can be scheduled within the bound
CanSchedule == pendingClears + orphanClears < MaxPendingClears

\* showStatusMessage(message): setStatusMessage(message) and one new timeout
showStatusMessage(message) == [updates |-> <<setStatusMessage(message)>>, timeouts |-> 1]

\* the text area's onChange
SetContentEvent(v) ==
    /\ phase = "idle"
    /\ Dispatch(<<setContent(v)>>)
    /\ UNCHANGED <<pendingClears, orphanClears, pendingCopies, clipboard, unhandled>>

\* a control that calls updateSetting once (the word-wrap switch)
UpdateSettingEvent(key, value) ==
    /\ phase = "idle"
    /\ Dispatch(<<updateSetting(key, value)>>)
    /\ UNCHANGED <<pendingClears, orphanClears, pendingCopies, clipboard, unhandled>>

\* onValueChange of the style toggle group: three updateSetting calls in one handler
ToggleGroupEvent(values) ==
    /\ phase = "idle"
    /\ Dispatch(<< updateSetting("isBold", "bold" \in values),
                   updateSetting("isItalic", "italic" \in values),
                   updateSetting("isUnderline", "underline" \in values) >>)
    /\ UNCHANGED <<pendingClears, orphanClears, pendingCopies, clipboard, unhandled>>

\* `${editorId}_note.txt`
FileName(id) == id \o "_note.txt"

\* handleSaveToFile as rendered with (id, cnt): the download and the status message
handleSaveToFile(id, cnt) ==
    [download |-> [name |-> FileName(id), body |-> cnt, type |-> "text/plain"],
     status |-> showStatusMessage("Content saved to file")]

SaveToFile(id, cnt) ==
    /\ CanSchedule
    /\ LET h == handleSaveToFile(id, cnt)
       IN  /\ Dispatch(h.status.updates)
           /\ pendingClears' = pendingClears + h.status.timeouts
    /\ UNCHANGED <<orphanClears, pendingCopies, clipboard, unhandled>>

\* the Save button
SaveToFileEvent == phase = "idle" /\ SaveToFile(editorId, content)

\* handleCopyToClipboard as rendered with cnt, up to its await:
\* navigator.clipboard.writeText(content) is in flight
handleCopyToClipboard(cnt) == [text |-> cnt, live |-> TRUE]

CopyToClipboard(cnt) ==
    /\ Len(pendingCopies) < MaxPendingCopies
    /\ pendingCopies' = Append(pendingCopies, handleCopyToClipboard(cnt))
    /\ UNCHANGED <<mounted, phase, editorId, initialContent, content, editorSettings,
                   statusMessage, initialLoadDone, autoSaveTimerRef, autoSaveCleanup,
                   intervalLeaked, listener, updateQ, memFor, store,
                   pendingClears, orphanClears, clipboard, unhandled>>

\* the Copy button
CopyEvent == phase = "idle" /\ CopyToClipboard(content)

RemoveAt(q, i) == [j \in 1..(Len(q) - 1) |-> IF j < i THEN q[j] ELSE q[j + 1]]

\* handleCopyToClipboard calling writeText again when it is rejected
CopyContinuation_retry(resolved) ==
    IF resolved
    THEN [status |-> showStatusMessage("Content copied to clipboard!"),
          retry |-> FALSE, escaped |-> FALSE]
    ELSE [status |-> showStatusMessage("Failed to copy content!"),
          retry |-> TRUE, escaped |-> FALSE]

\* what follows the await of handleCopyToClipboard: [status, retry, escaped]
CopyContinuation(resolved) ==
    IF resolved
    THEN [status |-> showStatusMessage("Content copied to clipboard!"),
          retry |-> FALSE, escaped |-> FALSE]
    ELSE [status |-> showStatusMessage("Failed to copy content!"),
          retry |-> FALSE, escaped |-> FALSE]

\* the clipboard write i settles and handleCopyToClipboard resumes
ClipboardSettle(i, resolved) ==
    /\ phase \in {"idle", "unmounted"}
    /\ i \in 1..Len(pendingCopies)
    /\ CanSchedule
    /\ LET c == pendingCopies[i]
           k == CopyContinuation(resolved)
       IN  /\ clipboard' = IF resolved THEN {c.text} ELSE clipboard
           /\ pendingCopies' = IF k.retry THEN Append(RemoveAt(pendingCopies, i), c)
                               ELSE RemoveAt(pendingCopies, i)
           /\ unhandled' = (unhandled \/ k.escaped)
           /\ IF c.live
              THEN /\ Dispatch(k.status.updates)
                   /\ pendingClears' = pendingClears + k.status.timeouts
                   /\ UNCHANGED orphanClears
              ELSE \* the instance is gone: its setter does nothing, its timeout is scheduled
                   /\ orphanClears' = orphanClears + k.status.timeouts
                   /\ UNCHANGED <<mounted, phase, editorId, initialContent, content,
                                  editorSettings, statusMessage, initialLoadDone,
                                  autoSaveTimerRef, autoSaveCleanup, intervalLeaked,
                                  listener, updateQ, memFor, store, pendingClears>>

\* handleClearText clearing without regard to the answer
handleClearText_noconfirm(confirmed) ==
    [updates |-> <<setContent("")>> \o showStatusMessage("All text cleared").updates,
     timeouts |-> showStatusMessage("All text cleared").timeouts]

\* handleClearText: window.confirm answers `confirmed`
handleClearText(confirmed) ==
    IF confirmed
    THEN [updates |-> <<setContent("")>> \o showStatusMessage("All text cleared").updates,
          timeouts |-> showStatusMessage("All text cleared").timeouts]
    ELSE [updates |-> <<>>, timeouts |-> 0]

\* the Clear button
ClearTextEvent(confirmed) ==
    /\ phase = "idle"
    /\ confirmed => CanSchedule
    /\ LET h == handleClearText(confirmed)
       IN  /\ Dispatch(h.updates)
           /\ pendingClears' = pendingClears + h.timeouts
    /\ UNCHANGED <<orphanClears, pendingCopies, clipboard, unhandled>>

\* handleKeyDown(e): what the listener does with a keydown event
handleKeyDown(ctrlKey, key, selection) ==
    LET save == ctrlKey /\ key = "s"
        copy == ctrlKey /\ key = "c" /\ selection = ""
    IN  [preventDefault |-> save \/ copy, saveToFile |-> save, copyToClipboard |-> copy]

\* a keydown reaches the document's listener, which calls the handlers it closed over
KeyDownEvent(ctrlKey, key, selection) ==
    /\ phase = "idle"
    /\ listener.on
    /\ LET k == handleKeyDown(ctrlKey, key, selection)
       IN  CASE k.saveToFile      -> SaveToFile(listener.editorId, listener.content)
             [] k.copyToClipboard -> CopyToClipboard(listener.content)
             [] OTHER             -> UNCHANGED vars

(* --------------------------- timer callbacks -------------------------- *)

\* the oldest status-clear timeout of the mounted instance fires: setStatusMessage("")
StatusClearFire ==
    /\ phase = "idle"
    /\ pendingClears > 0
    /\ Dispatch(<<setStatusMessage("")>>)
    /\ pendingClears' = pendingClears - 1
    /\ UNCHANGED <<orphanClears, pendingCopies, clipboard, unhandled>>

\* a status-clear timeout of an unmounted instance fires: its setter does nothing
OrphanClearFire ==
    /\ phase \in {"idle", "unmounted"}
    /\ orphanClears > 0
    /\ orphanClears' = orphanClears - 1
    /\ UNCHANGED <<mounted, phase, editorId, initialContent, content, editorSettings,
                   statusMessage, initialLoadDone, autoSaveTimerRef, autoSaveCleanup,
                   intervalLeaked, listener, updateQ, memFor, store,
                   pendingClears, pendingCopies, clipboard, unhandled>>

\* the interval timer of the auto-save effect fires: showStatusMessage("Auto-saved")
AutoSaveFire ==
    /\ phase = "idle"
    /\ autoSaveTimerRef.active
    /\ CanSchedule
    /\ LET h == showStatusMessage("Auto-saved")
       IN  /\ Dispatch(h.updates)
           /\ pendingClears' = pendingClears + h.timeouts
    /\ UNCHANGED <<orphanClears, pendingCopies, clipboard, unhandled>>

(* --------------------------- specification ---------------------------- *)

\* the component's life cycle, driven by the parent and by React
Lifecycle ==
    \/ \E id \in EditorIds, ic \in InitialContents : Mount(id, ic)
    \/ RenderUpdate
    \/ \E id \in EditorIds, ic \in InitialContents : PropsChange(id, ic)
    \/ Unmount

\* the user edits the text and the settings
NextPersistence ==
    \/ Lifecycle
    \/ \E v \in Typed : SetContentEvent(v)
    \/ \E v \in BOOLEAN : UpdateSettingEvent("wordWrap", v)
    \/ \E values \in ToggleInputs : ToggleGroupEvent(values)
    \/ \E c \in BOOLEAN : ClearTextEvent(c)
    \/ StatusClearFire
    \/ OrphanClearFire

\* the user types, saves, copies and presses keys while the timers run
NextFeedback ==
    \/ Lifecycle
    \/ \E v \in Typed : SetContentEvent(v)
    \/ SaveToFileEvent
    \/ CopyEvent
    \/ \E i \in 1..MaxPendingCopies, ok \in BOOLEAN : ClipboardSettle(i, ok)
    \/ \E ctrl \in BOOLEAN, key \in Keys, sel \in Selections : KeyDownEvent(ctrl, key, sel)
    \/ StatusClearFire
    \/ OrphanClearFire
    \/ AutoSaveFire

Next == NextPersistence \/ NextFeedback

\* every operation of the component
Spec == Init /\ [][Next]_vars

\* the persistence contract: content and settings against the store
PersistenceSpec == Init /\ [][NextPersistence]_vars

\* the feedback contract: status messages, timers, clipboard and keyboard
FeedbackSpec == Init /\ [][NextFeedback]_vars

(* ------------------------- persistence claims ------------------------- *)

\* the calls of saveFeatureState made by a task of the mounted instance that
\* queues the updates q
DispatchWrites(q) ==
    LET new == ApplyUpdates(q, Rendered)
    IN  RunEffects(EffectsFor(Rendered, new, FALSE, FALSE), editorId, initialContent,
                   new, Platform).writes

\* a step in which a handler calls setContent or updateSetting
MutationStep ==
    \/ \E v \in Typed : SetContentEvent(v)
    \/ \E v \in BOOLEAN : UpdateSettingEvent("wordWrap", v)
    \/ \E values \in ToggleInputs : ToggleGroupEvent(values)
    \/ ClearTextEvent(TRUE)

\* the three fields the style toggle group sets
Toggled(settings, values) ==
    [settings EXCEPT !.isBold = "bold" \in values,
                     !.isItalic = "italic" \in values,
                     !.isUnderline = "underline" \in values]

C1_WritesPerTask ==
    /\ phase = "unmounted" =>
           \A id \in EditorIds, ic \in InitialContents :
               RunEffects(AllEffects, id, ic, InitialState, Platform).writes = <<>>
    /\ phase = "idle" =>
           /\ initialLoadDone
           /\ \A v \in Typed :
                  DispatchWrites(<<setContent(v)>>) =
                      IF v # content THEN <<Write(ContentKey(editorId), v)>> ELSE <<>>
           /\ \A v \in BOOLEAN :
                  DispatchWrites(<<updateSetting("wordWrap", v)>>) =
                      <<Write(SettingsKey(editorId), [editorSettings EXCEPT !.wordWrap = v])>>
           /\ \A values \in ToggleInputs :
                  DispatchWrites(<< updateSetting("isBold", "bold" \in values),
                                    updateSetting("isItalic", "italic" \in values),
                                    updateSetting("isUnderline", "underline" \in values) >>) =
                      <<Write(SettingsKey(editorId), Toggled(editorSettings, values))>>

C2_UpdateSettingMerges ==
    [][ /\ \A v \in BOOLEAN : UpdateSettingEvent("wordWrap", v) =>
               editorSettings' = [editorSettings EXCEPT !.wordWrap = v]
        /\ \A values \in ToggleInputs : ToggleGroupEvent(values) =>
               /\ editorSettings'.isBold = ("bold" \in values)
               /\ editorSettings'.isItalic = ("italic" \in values)
               /\ editorSettings'.isUnderline = ("underline" \in values)
               /\ editorSettings'.wordWrap = editorSettings.wordWrap
               /\ editorSettings'.autoSaveInterval = editorSettings.autoSaveInterval
      ]_vars

\* the toggle group has set bold and underline, and the switch has cleared word wrap
C2_Witness ==
    /\ phase = "idle"
    /\ editorSettings.isBold /\ ~editorSettings.isItalic /\ editorSettings.isUnderline
    /\ ~editorSettings.wordWrap
    /\ StoredValue(store, SettingsKey(editorId)) = {editorSettings}

\* C3: clearText declined changes neither the content, the store, the settings
\* nor the status message; clearText confirmed leaves the content empty, the
\* store entry of the content key empty, and the settings as they were.
C3_ClearText ==
    /\ [](phase = "idle" =>
            LET h == handleClearText(FALSE)
            IN  /\ h.timeouts = 0
                /\ ApplyUpdates(h.updates, Rendered) = Rendered
                /\ DispatchWrites(h.updates) = <<>>)
    /\ [][ /\ ClearTextEvent(FALSE) =>
                  UNCHANGED <<content, store, editorSettings, statusMessage, pendingClears>>
           /\ ClearTextEvent(TRUE) =>
                  /\ content' = ""
                  /\ StoredValue(store', ContentKey(editorId)) = {""}
                  /\ editorSettings' = editorSettings
                  /\ store'.settings = store.settings
                  /\ \A id \in EditorIds \ {editorId} : store'.content[id] = store.content[id]
         ]_vars

\* text was typed, persisted, and then cleared with confirmation
C3_Witness ==
    /\ phase = "idle" /\ content = "" /\ initialContent = "x"
    /\ statusMessage = "All text cleared"
    /\ StoredValue(store, ContentKey(editorId)) = {""}

\* C4 as claimed: when a content entry has been persisted for the editorId, the
\* empty string included, the content after the load is the persisted value and
\* not initialContent.
C4_Claim ==
    [][ (~initialLoadDone /\ initialLoadDone'
            /\ StoredValue(store, ContentKey(editorId)) # {})
        => {content'} = StoredValue(store, ContentKey(editorId)) ]_vars

\* C5 as claimed: an entry under an editorId's keys changes only to a value held
\* in memory for that editorId, in every state, the states while the editorId
\* prop changes included.
C5_Claim ==
    [][ \A id \in EditorIds :
            (store'.content[id] # store.content[id]
                \/ store'.settings[id] # store.settings[id])
            => memFor' = id ]_vars

(* --------------------------- feedback claims -------------------------- *)

\* C6: a Loaded instance with autoSaveInterval N > 0 has exactly one interval
\* timer armed, of period N seconds, whose every firing shows "Auto-saved" and
\* leaves it armed; with autoSaveInterval <= 0, before the load and after the
\* unmount none is armed and no "Auto-saved" is shown; a timer is cancelled before
\* another is armed, so that never more than one runs.
C6_AutoSaveTimer ==
    /\ [](/\ ~intervalLeaked
          /\ phase = "idle" =>
                 (autoSaveTimerRef.active <=> editorSettings.autoSaveInterval > 0)
          /\ autoSaveTimerRef.active =>
                 /\ mounted /\ initialLoadDone
                 /\ editorSettings.autoSaveInterval > 0
                 /\ autoSaveTimerRef.period = editorSettings.autoSaveInterval * 1000)
    /\ [][ /\ AutoSaveFire =>
                  statusMessage' = "Auto-saved" /\ autoSaveTimerRef' = autoSaveTimerRef
           /\ (statusMessage' = "Auto-saved" /\ pendingClears' > pendingClears) =>
                  (autoSaveTimerRef.active /\ editorSettings.autoSaveInterval > 0)
         ]_vars

\* the two-second timer of editor A has fired
C6_Witness ==
    /\ phase = "idle" /\ editorId = "A"
    /\ autoSaveTimerRef.active /\ autoSaveTimerRef.period = 2000
    /\ statusMessage = "Auto-saved"

\* C7 as claimed: a message shown while the clear timer of an earlier one is
\* pending stays on display until its own timer fires, so the display is not
\* blank while a clear timer of the instance is pending.
C7_Claim == (mounted /\ pendingClears > 0) => statusMessage # ""

\* C8: a rejected clipboard write shows "Failed to copy content!", is not tried
\* again, lets no exception escape and changes neither content, settings nor the
\* store; a resolved one shows "Content copied to clipboard!" and has written the
\* content the handler was called with.
C8_CopyToClipboard ==
    [][ /\ \A i \in 1..MaxPendingCopies :
               (ClipboardSettle(i, FALSE) /\ pendingCopies[i].live) =>
                   /\ statusMessage' = "Failed to copy content!"
                   /\ Len(pendingCopies') = Len(pendingCopies) - 1
                   /\ ~unhandled'
                   /\ UNCHANGED <<content, editorSettings, store, clipboard>>
        /\ \A i \in 1..MaxPendingCopies :
               (ClipboardSettle(i, TRUE) /\ pendingCopies[i].live) =>
                   /\ statusMessage' = "Content copied to clipboard!"
                   /\ clipboard' = {pendingCopies[i].text}
                   /\ ~unhandled'
        /\ (CopyEvent \/ KeyDownEvent(TRUE, "c", "")) =>
               pendingCopies' = Append(pendingCopies, [text |-> content, live |-> TRUE])
      ]_vars

\* a clipboard write was rejected: the failure message is on display, no write is
\* pending, and the clipboard, the content and the store entry are as they were
C8_Witness ==
    /\ phase = "idle" /\ statusMessage = "Failed to copy content!"
    /\ pendingCopies = <<>> /\ clipboard = {} /\ content = ""
    /\ StoredValue(store, ContentKey(editorId)) = {""}

\* C9: Ctrl+S always saves to file and prevents the default; Ctrl+C copies and
\* prevents the default exactly when the selection is empty; and the handlers the
\* listener calls are those of the current render: they see the current content
\* and editorId.
C9_KeyboardShortcuts ==
    /\ [](/\ \A sel \in Selections :
                 /\ handleKeyDown(TRUE, "s", sel) =
                        [preventDefault |-> TRUE, saveToFile |-> TRUE,
                         copyToClipboard |-> FALSE]
                 /\ handleKeyDown(TRUE, "c", sel) =
                        [preventDefault |-> sel = "", saveToFile |-> FALSE,
                         copyToClipboard |-> sel = ""]
          /\ phase = "idle" =>
                 /\ listener = [on |-> TRUE, content |-> content, editorId |-> editorId]
                 /\ handleSaveToFile(listener.editorId, listener.content).download =
                        [name |-> FileName(editorId), body |-> content,
                         type |-> "text/plain"])
    /\ [][ /\ \A sel \in Selections : KeyDownEvent(TRUE, "s", sel) =>
                  statusMessage' = "Content saved to file"
           /\ KeyDownEvent(TRUE, "c", "sel") => UNCHANGED vars
         ]_vars

\* Ctrl+S after the user typed "x" in editor B
C9_Witness ==
    /\ phase = "idle" /\ editorId = "B" /\ initialContent = ""
    /\ content = "x" /\ listener.content = "x" /\ listener.editorId = "B"
    /\ statusMessage = "Content saved to file"

\* C10 as claimed: the interval timer and every status-clear timeout is cancelled
\* at the unmount or when a newer one is scheduled: no timeout of an unmounted
\* instance is pending, and at most one of the mounted instance.
C10_Claim ==
    /\ orphanClears = 0
    /\ pendingClears <= 1
    /\ ~intervalLeaked
    /\ ~mounted => ~autoSaveTimerRef.active

====
